---- MODULE Spec2Model ----
(***************************************************************************)
(* Plasmid Map Generator (src/plasmid_map_app.py): the GenBank tab's       *)
(* session state, the per-element override pass, and create_plasmid_map's  *)
(* layout of the scene.                                                    *)
(*                                                                         *)
(* Streamlit re-executes the whole script after every widget interaction,  *)
(* so every action below is one interaction followed by one full script    *)
(* run (parse, defaults, buttons, widgets, override pass, filter, render). *)
(*                                                                         *)
(* Geometry is exact: every coordinate is stored multiplied by Scale, the  *)
(* common denominator of the fractions the code divides by.                *)
(***************************************************************************)
EXTENDS Integers, Sequences, FiniteSets, TLC

VARIABLES
    uploaded,          \* the gb_uploader widget: <<>> or <<file>>
    csv_upload,        \* the csv_uploader widget: <<>> or <<table>>
    gb_data,           \* st.session_state.gb_data
    plasmid_length,    \* st.session_state.plasmid_length
    color_prefs,       \* st.session_state.color_prefs      : key -> color
    position_prefs,    \* st.session_state.position_prefs   : key -> "Up"/"Down"
    enabled_elements,  \* st.session_state.enabled_elements : key -> BOOLEAN
    edited_labels,     \* st.session_state.edited_labels    : key -> label
    checkbox_refresh,  \* st.session_state.checkbox_refresh
    region,            \* <<>> when show_region_gb is off, else <<region_start, region_end>>
    text_orientation,  \* sidebar radio
    show_positions,    \* sidebar checkbox
    label_font,        \* sidebar slider
    df_display,        \* the display copy computed by the last script run
    run_status,        \* how the last script run ended
    outcome,           \* what pressing a Generate button produced in the last run
    scene              \* the primitives drawn by the last render, in drawing order

vars == <<uploaded, csv_upload, gb_data, plasmid_length, color_prefs, position_prefs,
          enabled_elements, edited_labels, checkbox_refresh, region,
          text_orientation, show_positions, label_font, df_display,
          run_status, outcome, scene>>

-----------------------------------------------------------------------------
(* Bounds of the exploration *)

\* checkbox_refresh only grows; Select All / Deselect All stop at this value
MaxRefresh == 1

\* len(record.seq) of every uploaded record
SeqLen == 3

-----------------------------------------------------------------------------
(* Python values *)

None == "None"          \* Python None
NaN == "nan"            \* float('nan')
Fwd == "+1"             \* strand  1
Rev == "-1"             \* strand -1

Min(a, b) == IF a <= b THEN a ELSE b
Max(a, b) == IF a >= b THEN a ELSE b
Abs(a) == IF a >= 0 THEN a ELSE -a

\* dict.get(k, default)
Get(d, k, default) == IF k \in DOMAIN d THEN d[k] ELSE default

\* str.lower() on the strings that occur in the records below
LowerTable ==
    ("Source" :> "source") @@ ("CDS" :> "cds") @@
    ("Regulatory" :> "regulatory") @@ ("T7 Promoter" :> "t7 promoter") @@
    ("Misc_Feature" :> "misc_feature") @@
    ("A" :> "a") @@ ("B" :> "b") @@ ("C" :> "c")

lower(s) == Get(LowerTable, s, s)

\* 'promoter' in s, for a lower-cased s
HasPromoter(s) == s \in {"promoter", "t7 promoter"}

-----------------------------------------------------------------------------
(* Palettes *)

PASTEL_COLORS ==
    <<"lightblue", "lightcoral", "lightgreen", "lightyellow",
      "lightpink", "lightsalmon", "lightcyan", "lavender",
      "peachpuff", "palegreen", "mistyrose", "wheat",
      "lightsteelblue", "thistle", "lightgoldenrodyellow",
      "powderblue", "pink">>

ALL_COLORS ==
    <<"lightblue", "lightcoral", "lightgreen", "lightyellow",
      "lightpink", "lightsalmon", "lightcyan", "lavender",
      "peachpuff", "palegreen", "mistyrose", "wheat",
      "lightsteelblue", "thistle",
      "red", "blue", "green", "yellow", "orange", "purple",
      "cyan", "magenta", "lime", "pink",
      "brown", "gray", "olive", "navy", "teal", "maroon",
      "coral", "gold", "indigo", "crimson", "darkgreen",
      "darkblue", "darkred", "darkorange", "darkviolet",
      "deepskyblue", "forestgreen", "hotpink", "khaki",
      "lightseagreen", "mediumpurple", "mediumseagreen",
      "orangered", "orchid", "palevioletred", "peru",
      "plum", "royalblue", "salmon", "sandybrown",
      "seagreen", "sienna", "skyblue", "slateblue",
      "springgreen", "steelblue", "tan", "tomato",
      "turquoise", "violet", "yellowgreen">>

Range(s) == {s[i] : i \in DOMAIN s}

color_map ==
    ("lightyellow2" :> "lightyellow") @@
    ("lightblue2" :> "lightblue") @@
    ("lightpink2" :> "lightpink")

convert_r_color(color_name) == Get(color_map, color_name, color_name)

-----------------------------------------------------------------------------
(* The GenBank record as BioPython presents it: features with a type, a     *)
(* 0-based half-open location, a strand (1, -1 or None) and multi-valued    *)
(* qualifiers.                                                              *)

Feature(type, start, end, strand, qualifiers) ==
    [type |-> type, start |-> start, end |-> end, strand |-> strand,
     qualifiers |-> qualifiers]

NoQualifiers == [k \in {} |-> <<>>]

\* regulatory 1..2, /label=A /note="T7 Promoter"
FeatPromoterFwd ==
    Feature("regulatory", 0, 2, Fwd,
            ("label" :> <<"A">>) @@ ("note" :> <<"T7 Promoter">>))
\* Regulatory join(complement(2..2),3..3): mixed strands, so strand is None
FeatPromoterNoStrand ==
    Feature("Regulatory", 1, 3, None,
            ("standard_name" :> <<"A">>) @@ ("label" :> <<"B">>) @@
            ("note" :> <<"minimal", "promoter">>))
\* CDS complement(1..3), /gene=B /product=C
FeatCdsRev ==
    Feature("CDS", 0, 3, Rev, ("gene" :> <<"B">>) @@ ("product" :> <<"C">>))
\* misc_feature join(3..3,complement(3..3)), no qualifiers: a single base
FeatPoint == Feature("misc_feature", 2, 3, None, NoQualifiers)
\* Source 1..SeqLen
FeatSource == Feature("Source", 0, SeqLen, Fwd, NoQualifiers)

GenBankFile(ok, features) == [ok |-> ok, seq_len |-> SeqLen, features |-> features]

\* what the user can drop on the uploader: an unreadable file, and records
\* with none, one or two displayed features
Files ==
    {GenBankFile(FALSE, <<>>),
     GenBankFile(TRUE, <<>>),
     GenBankFile(TRUE, <<FeatSource>>),
     GenBankFile(TRUE, <<FeatPromoterFwd>>),
     GenBankFile(TRUE, <<FeatPromoterNoStrand>>),
     GenBankFile(TRUE, <<FeatPromoterFwd, FeatPromoterNoStrand>>)}

\* more records, for the region controls
RegionFiles ==
    Files \cup
    {GenBankFile(TRUE, <<FeatSource, FeatCdsRev>>),
     GenBankFile(TRUE, <<FeatCdsRev, FeatPoint>>),
     GenBankFile(TRUE, <<FeatCdsRev, FeatSource, FeatPromoterFwd>>)}

\* regulatory 1..2, /regulatory_class=promoter /gene=B /gene=C, no note
FeatRegClass ==
    Feature("regulatory", 0, 2, Fwd,
            ("regulatory_class" :> <<"promoter">>) @@ ("gene" :> <<"B", "C">>))
\* Misc_Feature 1..3 on the forward strand, /product=C
FeatMiscFwd == Feature("Misc_Feature", 0, 3, Fwd, ("product" :> <<"C">>))
\* Misc_Feature 2..3 without a single strand, /label=B
FeatMiscNoStrand == Feature("Misc_Feature", 1, 3, None, ("label" :> <<"B">>))
\* CDS complement(1..3) with a label of 26 characters
FeatLongRev ==
    Feature("CDS", 0, 3, Rev, ("label" :> <<"ampicillin_resistance_gene">>))

\* records for the parser: every naming qualifier, every strand, types in
\* both cases, a source feature between two others
ParseFiles ==
    {GenBankFile(FALSE, <<>>),
     GenBankFile(TRUE, <<>>),
     GenBankFile(TRUE, <<FeatSource>>),
     GenBankFile(TRUE, <<FeatRegClass>>),
     GenBankFile(TRUE, <<FeatPromoterFwd, FeatMiscFwd>>),
     GenBankFile(TRUE, <<FeatPromoterNoStrand, FeatCdsRev>>),
     GenBankFile(TRUE, <<FeatMiscNoStrand, FeatSource, FeatLongRev>>),
     GenBankFile(TRUE, <<FeatLongRev, FeatPoint>>)}

\* the colours np.random.choice(PASTEL_COLORS) is explored with
ColorDraws == {"lightblue", "powderblue"}

-----------------------------------------------------------------------------
(* parse_genbank_file *)

\* f"{feature.type}_{start}_{end}"
FallbackName(type, start, end) ==
    type \o "_" \o ToString(start) \o "_" \o ToString(end)

\* mutant: label is looked at before standard_name
FeatureNameLabelFirst(feature, start, end) ==
    LET q == feature.qualifiers IN
    IF "label" \in DOMAIN q THEN q["label"][1]
    ELSE IF "standard_name" \in DOMAIN q THEN q["standard_name"][1]
    ELSE IF "gene" \in DOMAIN q THEN q["gene"][1]
    ELSE IF "product" \in DOMAIN q THEN q["product"][1]
    ELSE FallbackName(feature.type, start, end)

FeatureName(feature, start, end) ==
    LET q == feature.qualifiers IN
    IF "standard_name" \in DOMAIN q THEN q["standard_name"][1]
    ELSE IF "label" \in DOMAIN q THEN q["label"][1]
    ELSE IF "gene" \in DOMAIN q THEN q["gene"][1]
    ELSE IF "product" \in DOMAIN q THEN q["product"][1]
    ELSE FallbackName(feature.type, start, end)

\* " ".join(feature.qualifiers['note']).lower(), kept as the sequence of its
\* space-separated parts ("" is the empty sequence)
FeatureNote(feature) ==
    LET q == feature.qualifiers IN
    IF "note" \in DOMAIN q
    THEN [i \in 1..Len(q["note"]) |-> lower(q["note"][i])]
    ELSE <<>>

\* 'promoter' in note: the needle holds no space, so it lies within one part
NoteHasPromoter(note) == \E i \in 1..Len(note) : HasPromoter(note[i])

\* mutant: standard_name, regulatory_class and label are searched as well
IsPromoterFeatureAnyQualifier(feature) ==
    /\ lower(feature.type) = "regulatory"
    /\ \E k \in {"note", "standard_name", "regulatory_class", "label"}
              \cap DOMAIN feature.qualifiers :
          \E i \in 1..Len(feature.qualifiers[k]) :
              HasPromoter(lower(feature.qualifiers[k][i]))

IsPromoterFeature(feature) ==
    lower(feature.type) = "regulatory" /\ NoteHasPromoter(FeatureNote(feature))

\* mutant: the older rule, by type alone
DefaultPositionByType(feature) ==
    IF lower(feature.type) = "misc_feature" THEN "Down" ELSE "Up"

DefaultPosition(feature) ==
    IF feature.strand = Rev THEN "Down"
    ELSE IF feature.strand = Fwd THEN "Up"
    ELSE IF lower(feature.type) = "misc_feature" THEN "Down" ELSE "Up"

\* mutant: the start is left 0-based
ParseFeatureZeroBased(feature, color) ==
    [Element |-> FeatureName(feature, feature.start, feature.end),
     Start |-> feature.start,
     End |-> feature.end,
     Color |-> color,
     Position |-> DefaultPosition(feature),
     Strand |-> feature.strand,
     Note |-> FeatureNote(feature),
     IsPromoter |-> IsPromoterFeature(feature)]

\* one elements_data.append({...})
ParseFeature(feature, color) ==
    LET start == feature.start + 1
        end == feature.end
    IN [Element |-> FeatureName(feature, start, end),
        Start |-> start,
        End |-> end,
        Color |-> color,
        Position |-> DefaultPosition(feature),
        Strand |-> feature.strand,
        Note |-> FeatureNote(feature),
        IsPromoter |-> IsPromoterFeature(feature)]

\* mutant: the type is compared as written
IsSourceCaseSensitive(feature) == feature.type = "source"

IsSource(feature) == lower(feature.type) = "source"

NonSource(features) == SelectSeq(features, LAMBDA f : ~IsSource(f))

\* pd.DataFrame(elements_data): rows get the RangeIndex 0..n-1 (field idx);
\* a Strand column mixing numbers and None becomes float64 with NaN for
\* None, a column of None only stays an object column of None
DataFrame(elements_data) ==
    LET allNone == \A i \in 1..Len(elements_data) : elements_data[i].Strand = None
        row(i) == elements_data[i]
    IN [i \in 1..Len(elements_data) |->
          [idx |-> i - 1,
           Element |-> row(i).Element,
           Start |-> row(i).Start,
           End |-> row(i).End,
           Color |-> row(i).Color,
           Position |-> row(i).Position,
           Strand |-> IF row(i).Strand = None /\ ~allNone THEN NaN
                      ELSE row(i).Strand,
           Note |-> row(i).Note,
           IsPromoter |-> row(i).IsPromoter]]

\* the result for the colours drawn (colors[i] for the i-th kept feature);
\* None when the record cannot be read
parse_genbank_file(uploaded_file, colors) ==
    IF ~uploaded_file.ok THEN None
    ELSE LET kept == NonSource(uploaded_file.features) IN
         [df |-> DataFrame([i \in 1..Len(kept) |-> ParseFeature(kept[i], colors[i])]),
          plasmid_length |-> uploaded_file.seq_len]

\* every way the random colours can fall
ColorChoices(uploaded_file) ==
    IF ~uploaded_file.ok THEN {<<>>}
    ELSE [1..Len(NonSource(uploaded_file.features)) -> ColorDraws]

-----------------------------------------------------------------------------
(* Geometry.  A coordinate c of the program is held as c * Scale.           *)

\* the code divides by 2, 3 (width/3, height/1.5) and 10 (0.6, 0.3, 0.2, 0.7)
Scale == 2 * 3 * 5

box_height == 80
text_distance == 120
text_gap == 30
num_levels == 3

\* the names matplotlib resolves, among the colour tokens that occur here;
\* any other facecolor makes the patch constructor raise ValueError
MatplotlibColors ==
    Range(PASTEL_COLORS) \cup Range(ALL_COLORS) \cup
    {"black", "grey", "darkorchid", "goldenrod", "dodgerblue"}

\* ax.plot: a Line2D, which matplotlib stacks at zorder 2
Line(x0, x1, y0, y1) ==
    [kind |-> "line", xs |-> <<x0, x1>>, ys |-> <<y0, y1>>, zorder |-> 2]

\* mutant: the arrowhead takes 30% of the width
create_arrow_polygon_head30(x_center, y_center, width, height, direction) ==
    LET d == IF direction = "right" THEN 1 ELSE -1 IN
    << <<x_center - d * (width \div 2), y_center - height \div 2>>,
       <<x_center + d * (width \div 5), y_center - height \div 2>>,
       <<x_center + d * (width \div 5), y_center - (2 * height) \div 3>>,
       <<x_center + d * (width \div 2), y_center>>,
       <<x_center + d * (width \div 5), y_center + (2 * height) \div 3>>,
       <<x_center + d * (width \div 5), y_center + height \div 2>>,
       <<x_center - d * (width \div 2), y_center + height \div 2>> >>

\* the seven vertices, in the order the code lists them (index 4 is the tip)
create_arrow_polygon(x_center, y_center, width, height, direction) ==
    IF direction = "right"
    THEN << <<x_center - width \div 2, y_center - height \div 2>>,
            <<x_center + width \div 3, y_center - height \div 2>>,
            <<x_center + width \div 3, y_center - (2 * height) \div 3>>,
            <<x_center + width \div 2, y_center>>,
            <<x_center + width \div 3, y_center + (2 * height) \div 3>>,
            <<x_center + width \div 3, y_center + height \div 2>>,
            <<x_center - width \div 2, y_center + height \div 2>> >>
    ELSE << <<x_center + width \div 2, y_center - height \div 2>>,
            <<x_center - width \div 3, y_center - height \div 2>>,
            <<x_center - width \div 3, y_center - (2 * height) \div 3>>,
            <<x_center - width \div 2, y_center>>,
            <<x_center - width \div 3, y_center + (2 * height) \div 3>>,
            <<x_center - width \div 3, y_center + height \div 2>>,
            <<x_center + width \div 2, y_center + height \div 2>> >>

\* mutant: the fully-spanning case is forgotten
InRegionNoSpan(row, region_start, region_end) ==
    \/ (row.Start >= region_start /\ row.Start <= region_end)
    \/ (row.End >= region_start /\ row.End <= region_end)

\* the boolean mask of the region filter, for one row
InRegion(row, region_start, region_end) ==
    \/ (row.Start >= region_start /\ row.Start <= region_end)
    \/ (row.End >= region_start /\ row.End <= region_end)
    \/ (row.Start <= region_start /\ row.End >= region_end)

\* mutant: the rows are taken from st.session_state.gb_data, not from df
RegionFilterSession(df, region_) ==
    IF region_ # <<>>
    THEN SelectSeq(gb_data, LAMBDA row : InRegion(row, region_[1], region_[2]))
    ELSE gb_data

RegionFilter(df, region_) ==
    IF region_ # <<>>
    THEN SelectSeq(df, LAMBDA row : InRegion(row, region_[1], region_[2]))
    ELSE df

\* mutant: the plasmid line ignores the region
PlotRangeWholePlasmid(plasmid_length_, region_) == <<0, plasmid_length_>>

\* mutant: the plasmid line starts at base 1
PlotRangeOneBased(plasmid_length_, region_) ==
    IF region_ # <<>> THEN <<region_[1], region_[2]>> ELSE <<1, plasmid_length_>>

\* the plasmid line: [plot_start, plot_end]
PlotRange(plasmid_length_, region_) ==
    IF region_ # <<>> THEN <<region_[1], region_[2]>> ELSE <<0, plasmid_length_>>

Orders(n) ==
    {p \in [1..n -> 1..n] : \A i, j \in 1..n : i # j => p[i] # p[j]}

\* df.sort_values('Start') uses the default quicksort, which promises no
\* order among equal keys: every order that is sorted by Start can come out
SortOrders(df) ==
    {p \in Orders(Len(df)) :
        \A i, j \in 1..Len(df) : i < j => df[p[i]].Start <= df[p[j]].Start}

\* element_levels: a dict keyed by the row's Element, written in sorted
\* order, so the last row of a name decides the name's level
ElementLevels(df, order) ==
    LET names == {df[i].Element : i \in 1..Len(df)}
        last(name) == CHOOSE k \in 1..Len(df) :
                         /\ df[order[k]].Element = name
                         /\ \A m \in 1..Len(df) :
                               df[order[m]].Element = name => m <= k
    IN [name \in names |-> (last(name) - 1) % num_levels]

\* strand >= 0 for the values a Strand cell holds (NaN compares False)
StrandGeZero(strand) == strand = Fwd

\* box_y, line_end_y and text_y of a row
Heights(position, text_orientation_, level) ==
    LET level_multiplier ==
            IF text_orientation_ = "horizontal"
            THEN Scale + level * ((6 * Scale) \div 10)
            ELSE Scale
        reach == box_height * Scale + text_distance * level_multiplier
    IN IF position = "Up"
       THEN [box_y |-> (box_height * Scale) \div 2,
             line_end_y |-> reach,
             text_y |-> reach + text_gap * Scale]
       ELSE [box_y |-> -((box_height * Scale) \div 2),
             line_end_y |-> -reach,
             text_y |-> -reach - text_gap * Scale]

\* ax.text / ax.annotate: matplotlib stacks texts at zorder 3
Text(x, y, s, ha, va, rotation, fontsize, color, xytext) ==
    [kind |-> "text", x |-> x, y |-> y, s |-> s, ha |-> ha, va |-> va,
     rotation |-> rotation, fontsize |-> fontsize, color |-> color,
     xytext |-> xytext, zorder |-> 3]

\* mutant: the arrow is added without zorder=3
ShapeOfDefaultZorder(row, color, center, box_y, width) ==
    IF row.IsPromoter
    THEN [kind |-> "polygon",
          points |-> create_arrow_polygon(
                        center, box_y, width, box_height * Scale,
                        IF StrandGeZero(row.Strand) THEN "right" ELSE "left"),
          facecolor |-> color,
          zorder |-> 1]
    ELSE [kind |-> "rect",
          x |-> row.Start * Scale,
          y |-> box_y - (box_height * Scale) \div 2,
          width |-> width,
          height |-> box_height * Scale,
          facecolor |-> color,
          zorder |-> 1]

\* the shape of a row: an arrow for promoters (zorder=3), a rectangle
\* otherwise (a patch without zorder is stacked at matplotlib's 1)
ShapeOf(row, color, center, box_y, width) ==
    IF row.IsPromoter
    THEN [kind |-> "polygon",
          points |-> create_arrow_polygon(
                        center, box_y, width, box_height * Scale,
                        IF StrandGeZero(row.Strand) THEN "right" ELSE "left"),
          facecolor |-> color,
          zorder |-> 3]
    ELSE [kind |-> "rect",
          x |-> row.Start * Scale,
          y |-> box_y - (box_height * Scale) \div 2,
          width |-> width,
          height |-> box_height * Scale,
          facecolor |-> color,
          zorder |-> 1]

\* the label text(s) of a row
LabelsOf(row, center, text_y, label_font_, show_positions_, text_orientation_) ==
    LET element == row.Element
        element_size == row.End - row.Start + 1
        size_label == " (" \o ToString(element_size) \o " bp)"
        up == row.Position = "Up"
        n == Len(element) * label_font_
    IN IF text_orientation_ = "vertical"
       THEN LET ha == IF up THEN "left" ELSE "right"
                offset_y == IF up THEN n * ((2 * Scale) \div 10) + 5 * Scale
                            ELSE n * ((7 * Scale) \div 10) + 15 * Scale
                size_y == IF up THEN text_y + offset_y ELSE text_y - offset_y
            IN <<Text(center, text_y, element, ha, "center", 90, label_font_,
                      "black", <<0, 0>>)>>
               \o (IF show_positions_
                   THEN <<Text(center, size_y, size_label, ha, "center", 90,
                               label_font_, "grey", <<0, 0>>)>>
                   ELSE <<>>)
       ELSE LET va_align == IF up THEN "bottom" ELSE "top" IN
            <<Text(center, text_y, element, "center", va_align, 0, label_font_,
                   "black", <<0, 0>>)>>
            \o (IF show_positions_
                THEN <<Text(center, text_y, size_label, "left", va_align, 0,
                            label_font_, "grey",
                            <<n * ((3 * Scale) \div 10) + 10 * Scale, 0>>)>>
                ELSE <<>>)

\* one pass of the drawing loop: shape, connector, label text(s)
ElementPrimitives(row, element_levels, label_font_, show_positions_, text_orientation_) ==
    LET color == convert_r_color(row.Color)
        center == (row.Start + row.End) * (Scale \div 2)
        width == (row.End - row.Start) * Scale
        level == Get(element_levels, row.Element, 0)
        h == Heights(row.Position, text_orientation_, level)
    IN <<ShapeOf(row, color, center, h.box_y, width),
         Line(center, center, h.box_y, h.line_end_y)>>
       \o LabelsOf(row, center, h.text_y, label_font_, show_positions_,
                   text_orientation_)

RECURSIVE DrawAll(_, _, _, _, _)
DrawAll(df, element_levels, label_font_, show_positions_, text_orientation_) ==
    IF df = <<>> THEN <<>>
    ELSE ElementPrimitives(Head(df), element_levels, label_font_,
                           show_positions_, text_orientation_)
         \o DrawAll(Tail(df), element_levels, label_font_, show_positions_,
                    text_orientation_)

\* what drawing a row raises, if anything
RowError(row) ==
    IF row.IsPromoter /\ row.Strand = None THEN "TypeError"
    ELSE IF convert_r_color(row.Color) \notin MatplotlibColors THEN "ValueError"
    ELSE "ok"

\* mutant: the empty check is missing
NothingToRenderUnchecked(rows, region_) == FALSE

\* "if df.empty: st.warning(...); return None", reached only with a region
NothingToRender(rows, region_) == region_ # <<>> /\ rows = <<>>

NoFigure(result) ==
    [result |-> result, primitives |-> <<>>, xlim |-> <<>>, ylim |-> <<>>]

\* create_plasmid_map; region_ is <<>> for region_start = region_end = None,
\* order is the row order sort_values produced
create_plasmid_map(df, plasmid_length_, label_font_, show_positions_, text_orientation_, region_, order) ==
    LET rows == RegionFilter(df, region_)
        plot == PlotRange(plasmid_length_, region_)
        element_levels ==
            IF text_orientation_ = "horizontal" THEN ElementLevels(rows, order)
            ELSE <<>>
        failing == {i \in 1..Len(rows) : RowError(rows[i]) # "ok"}
        y_max ==
            IF text_orientation_ = "horizontal"
            THEN Max(box_height * Scale + text_distance * ((45 * Scale) \div 10)
                       + text_gap * Scale + 100 * Scale,
                     700 * Scale)
            ELSE Max(box_height * Scale + text_distance * Scale
                       + text_gap * Scale + 100 * Scale,
                     400 * Scale)
    IN IF NothingToRender(rows, region_) THEN NoFigure("region_empty")
       ELSE IF failing # {}
       THEN NoFigure(RowError(rows[CHOOSE i \in failing : \A j \in failing : i <= j]))
       ELSE [result |-> "fig",
             primitives |->
                 <<Line(plot[1] * Scale, plot[2] * Scale, 0, 0)>>
                 \o DrawAll(rows, element_levels, label_font_, show_positions_,
                            text_orientation_),
             xlim |-> <<(plot[1] - 500) * Scale, (plot[2] + 500) * Scale>>,
             ylim |-> <<-y_max, y_max>>]

-----------------------------------------------------------------------------
(* One run of the script's GenBank tab *)

\* f"{idx}_{element}": idx is all digits, so the pair is recovered from the
\* string and the key is held as the pair
unique_key(idx, element) == <<idx, element>>

Keys(df) == {unique_key(df[i].idx, df[i].Element) : i \in 1..Len(df)}

\* the row a key of Keys(df) names
RowOf(df, k) == df[k[1] + 1]

\* the widget the user acted on to trigger the run
Event(widget, key, value) == [widget |-> widget, key |-> key, value |-> value]
NoEvent == Event("none", <<>>, "none")

\* "if unique_key not in ...": defaults for the keys of this file
InitEnabled(enabled, df) == enabled @@ [k \in Keys(df) |-> TRUE]
InitLabels(labels, df) == labels @@ [k \in Keys(df) |-> k[2]]

\* Select All / Deselect All
AfterButtons(enabled, df, ev) ==
    IF ev.widget \in {"select_all", "deselect_all"}
    THEN [k \in DOMAIN enabled \cup Keys(df) |->
            IF k \in Keys(df) THEN ev.widget = "select_all" ELSE enabled[k]]
    ELSE enabled

RefreshAfterButtons(refresh, ev) ==
    IF ev.widget \in {"select_all", "deselect_all"} THEN refresh + 1 ELSE refresh

\* a keyed widget returns what the user just entered, else what it held
WidgetValue(ev, widget, k, held) ==
    IF ev.widget = widget /\ ev.key = k THEN ev.value ELSE held

\* the selectbox shows current_color when ALL_COLORS lists it, else entry 0
ColorSelectDefault(current_color) ==
    IF current_color \in Range(ALL_COLORS) THEN current_color ELSE ALL_COLORS[1]

\* index=0 if current_position == "Up" else 1
PositionSelectDefault(current_position) ==
    IF current_position = "Up" THEN "Up" ELSE "Down"

\* the four widgets of every row, written back to the session dicts
LabelsAfterWidgets(labels, df, ev) ==
    [k \in DOMAIN labels \cup Keys(df) |->
        IF k \in Keys(df)
        THEN WidgetValue(ev, "label", k, Get(labels, k, k[2]))
        ELSE labels[k]]

ColorsAfterWidgets(colors, df, ev) ==
    [k \in DOMAIN colors \cup Keys(df) |->
        IF k \in Keys(df)
        THEN WidgetValue(ev, "color", k,
                         ColorSelectDefault(Get(colors, k, RowOf(df, k).Color)))
        ELSE colors[k]]

PositionsAfterWidgets(positions, df, ev) ==
    [k \in DOMAIN positions \cup Keys(df) |->
        IF k \in Keys(df)
        THEN WidgetValue(ev, "position", k,
                         PositionSelectDefault(Get(positions, k, RowOf(df, k).Position)))
        ELSE positions[k]]

EnabledAfterWidgets(enabled, df, ev) ==
    [k \in DOMAIN enabled \cup Keys(df) |->
        IF k \in Keys(df)
        THEN WidgetValue(ev, "enabled", k, Get(enabled, k, TRUE))
        ELSE enabled[k]]

\* the override of one row, looked up by the row's key before the pass
Overridden(row, labels, colors, positions) ==
    LET k == unique_key(row.idx, row.Element) IN
    [row EXCEPT !.Element = Get(labels, k, @),
                !.Color = Get(colors, k, @),
                !.Position = Get(positions, k, @)]

\* mutant: df_display = df without .copy(), so the writes land in df too
OverridePassInPlace(df, labels, colors, positions) ==
    LET written == [i \in 1..Len(df) |-> Overridden(df[i], labels, colors, positions)]
    IN [df |-> written, df_display |-> written]

\* "Apply customizations to dataframe": df_display = df.copy(), then one
\* .loc write per field.  Both frames as they are after the pass.
OverridePass(df, labels, colors, positions) ==
    [df |-> df,
     df_display |-> [i \in 1..Len(df) |-> Overridden(df[i], labels, colors, positions)]]

\* the key "Filter out disabled elements" looks a row of df_display up by
FilterKey(row) == unique_key(row.idx, row.Element)

\* df_display.loc[enabled_indices]
FilterDisabled(df_display_, enabled) ==
    SelectSeq(df_display_, LAMBDA row : Get(enabled, FilterKey(row), TRUE))

\* the script's run of tab1, triggered by ev, with the widget values given
ScriptRun(file_, region_, text_orientation_, ev) ==
    IF file_ = <<>>
    THEN /\ run_status' = "no_file"
         /\ df_display' = <<>>
         /\ outcome' = "none"
         /\ scene' = NoFigure("none")
         /\ UNCHANGED <<gb_data, plasmid_length, color_prefs, position_prefs,
                        enabled_elements, edited_labels, checkbox_refresh>>
    ELSE IF ~file_[1].ok
    THEN \* parse_genbank_file returned None: nothing below is executed
         /\ run_status' = "parse_error"
         /\ df_display' = <<>>
         /\ outcome' = "none"
         /\ scene' = NoFigure("none")
         /\ UNCHANGED <<gb_data, plasmid_length, color_prefs, position_prefs,
                        enabled_elements, edited_labels, checkbox_refresh>>
    ELSE \E colors \in ColorChoices(file_[1]) :
         \E result \in {parse_genbank_file(file_[1], colors)} :
         \E df \in {result.df} :
         \E enabled0 \in {AfterButtons(InitEnabled(enabled_elements, df), df, ev)} :
         \E labels0 \in {InitLabels(edited_labels, df)} :
         \E labels1 \in {LabelsAfterWidgets(labels0, df, ev)} :
         \E colors1 \in {ColorsAfterWidgets(color_prefs, df, ev)} :
         \E positions1 \in {PositionsAfterWidgets(position_prefs, df, ev)} :
         \E enabled1 \in {EnabledAfterWidgets(enabled0, df, ev)} :
         \E pass \in {OverridePass(df, labels1, colors1, positions1)} :
         \E shown \in {FilterDisabled(pass.df_display, enabled1)} :
            /\ plasmid_length' = result.plasmid_length
            /\ checkbox_refresh' = RefreshAfterButtons(checkbox_refresh, ev)
            /\ IF df # <<>> /\ df[1].Strand = None
               THEN \* "strand >= 0" on None raises TypeError at the first row
                    /\ run_status' = "TypeError"
                    /\ gb_data' = df
                    /\ enabled_elements' = enabled0
                    /\ edited_labels' = labels0
                    /\ UNCHANGED <<color_prefs, position_prefs>>
                    /\ df_display' = <<>>
                    /\ outcome' = "none"
                    /\ scene' = NoFigure("none")
               ELSE /\ gb_data' = pass.df
                    /\ enabled_elements' = enabled1
                    /\ edited_labels' = labels1
                    /\ color_prefs' = colors1
                    /\ position_prefs' = positions1
                    /\ df_display' = shown
                    /\ IF df = <<>>
                       THEN \* the empty frame has no columns: the feature
                            \* table's column selection raises KeyError
                            /\ run_status' = "KeyError"
                            /\ outcome' = "none"
                            /\ scene' = NoFigure("none")
                       ELSE /\ run_status' = "ok"
                            /\ IF ev.widget # "generate_gb"
                               THEN /\ outcome' = "none"
                                    /\ scene' = NoFigure("none")
                               ELSE IF Len(shown) = 0
                               THEN /\ outcome' = "no_elements_selected"
                                    /\ scene' = NoFigure("none")
                               ELSE \E order \in SortOrders(RegionFilter(shown, region_)) :
                                    \E fig \in {create_plasmid_map(
                                                  shown, result.plasmid_length,
                                                  label_font, show_positions,
                                                  text_orientation_, region_, order)} :
                                       /\ outcome' = fig.result
                                       /\ scene' = fig

-----------------------------------------------------------------------------
(* The session: one action per interaction, each followed by a script run  *)

\* what the user types or picks in the widgets
LabelInputs == {"A", "B"}
ColorInputs == {"lightblue", "red"}
Orientations == {"horizontal", "vertical"}

Init ==
    /\ uploaded = <<>>
    /\ csv_upload = <<>>
    /\ gb_data = <<>>
    /\ plasmid_length = 0
    /\ color_prefs = <<>>
    /\ position_prefs = <<>>
    /\ enabled_elements = <<>>
    /\ edited_labels = <<>>
    /\ checkbox_refresh = 0
    /\ region = <<>>
    /\ text_orientation = "horizontal"
    /\ show_positions = FALSE
    /\ label_font = 11
    /\ df_display = <<>>
    /\ run_status = "no_file"
    /\ outcome = "none"
    /\ scene = NoFigure("none")

Sidebar == <<text_orientation, show_positions, label_font>>

\* the run showed the customisation widgets and the Generate button
WidgetsShown == run_status = "ok"

\* the run got past the parse: region controls and the two buttons exist
ParsedShown == run_status \in {"ok", "TypeError", "KeyError"}

\* the user drops a file on the empty uploader
Upload(file) ==
    /\ uploaded = <<>>
    /\ uploaded' = <<file>>
    /\ UNCHANGED <<csv_upload, region, Sidebar>>
    /\ ScriptRun(<<file>>, region, text_orientation, NoEvent)

EditLabel(k, label) ==
    /\ WidgetsShown
    /\ k \in Keys(gb_data)
    /\ label # edited_labels[k]
    /\ UNCHANGED <<uploaded, csv_upload, region, Sidebar>>
    /\ ScriptRun(uploaded, region, text_orientation, Event("label", k, label))

SetColor(k, color) ==
    /\ WidgetsShown
    /\ k \in Keys(gb_data)
    /\ color # color_prefs[k]
    /\ UNCHANGED <<uploaded, csv_upload, region, Sidebar>>
    /\ ScriptRun(uploaded, region, text_orientation, Event("color", k, color))

SetPosition(k, position) ==
    /\ WidgetsShown
    /\ k \in Keys(gb_data)
    /\ position # position_prefs[k]
    /\ UNCHANGED <<uploaded, csv_upload, region, Sidebar>>
    /\ ScriptRun(uploaded, region, text_orientation, Event("position", k, position))

ToggleShow(k) ==
    /\ WidgetsShown
    /\ k \in Keys(gb_data)
    /\ UNCHANGED <<uploaded, csv_upload, region, Sidebar>>
    /\ ScriptRun(uploaded, region, text_orientation,
                 Event("enabled", k, ~enabled_elements[k]))

SelectAll ==
    /\ ParsedShown
    /\ checkbox_refresh < MaxRefresh
    /\ UNCHANGED <<uploaded, csv_upload, region, Sidebar>>
    /\ ScriptRun(uploaded, region, text_orientation, Event("select_all", <<>>, "none"))

DeselectAll ==
    /\ ParsedShown
    /\ checkbox_refresh < MaxRefresh
    /\ UNCHANGED <<uploaded, csv_upload, region, Sidebar>>
    /\ ScriptRun(uploaded, region, text_orientation, Event("deselect_all", <<>>, "none"))

\* the "Show only specific region" checkbox; the number inputs start at
\* 1 and min(1000, plasmid_length)
ToggleRegion ==
    /\ ParsedShown
    /\ region' = IF region = <<>> THEN <<1, Min(1000, plasmid_length)>> ELSE <<>>
    /\ UNCHANGED <<uploaded, csv_upload, Sidebar>>
    /\ ScriptRun(uploaded, region', text_orientation, NoEvent)

SetRegionStart(v) ==
    /\ ParsedShown
    /\ region # <<>>
    /\ v # region[1]
    /\ region' = <<v, region[2]>>
    /\ UNCHANGED <<uploaded, csv_upload, Sidebar>>
    /\ ScriptRun(uploaded, region', text_orientation, NoEvent)

SetRegionEnd(v) ==
    /\ ParsedShown
    /\ region # <<>>
    /\ v # region[2]
    /\ region' = <<region[1], v>>
    /\ UNCHANGED <<uploaded, csv_upload, Sidebar>>
    /\ ScriptRun(uploaded, region', text_orientation, NoEvent)

SetOrientation(o) ==
    /\ o # text_orientation
    /\ text_orientation' = o
    /\ UNCHANGED <<uploaded, csv_upload, region, show_positions, label_font>>
    /\ ScriptRun(uploaded, region, o, NoEvent)

\* the sidebar's "Show Element Sizes (in brackets)" checkbox
ToggleSizes ==
    /\ show_positions' = ~show_positions
    /\ UNCHANGED <<uploaded, csv_upload, region, text_orientation, label_font>>
    /\ ScriptRun(uploaded, region, text_orientation, NoEvent)

Generate ==
    /\ WidgetsShown
    /\ UNCHANGED <<uploaded, csv_upload, region, Sidebar>>
    /\ ScriptRun(uploaded, region, text_orientation, Event("generate_gb", <<>>, "none"))

-----------------------------------------------------------------------------
(* The CSV/Excel tab *)

\* the Color cells a table may hold, and its rows
CsvColors == {"red", "lightblue2", "darkorchid3", "gold4", "xyz123"}

CsvRows ==
    [Element : {"A"}, Start : {1}, End : {1, 3}, Color : CsvColors,
     Position : {"Up", "Down"}]

CsvTables == {<<>>} \cup {<<r>> : r \in CsvRows} \cup {<<r, q>> : r, q \in CsvRows}

\* pd.read_csv, then df['IsPromoter'] = False; the table has no Strand
\* column, so row.get('Strand', 1) is 1
CsvFrame(table) ==
    [i \in 1..Len(table) |->
        [idx |-> i - 1,
         Element |-> table[i].Element,
         Start |-> table[i].Start,
         End |-> table[i].End,
         Color |-> table[i].Color,
         Position |-> table[i].Position,
         Strand |-> Fwd,
         Note |-> <<>>,
         IsPromoter |-> FALSE]]

RECURSIVE MaxEnd(_)
MaxEnd(df) ==
    IF Len(df) = 1 THEN df[1].End ELSE Max(df[1].End, MaxEnd(Tail(df)))

\* the "Plasmid Length (bp)" input, left at its default
CsvPlasmidLength(df) == MaxEnd(df) + 500

\* tab2 of the script; every exception is caught and shown as an error
CsvRun(csv_, text_orientation_, ev) ==
    IF csv_ = <<>>
    THEN /\ outcome' = "none"
         /\ scene' = NoFigure("none")
    ELSE IF csv_[1] = <<>>
    THEN \* int(df['End'].max()) of an empty column: ValueError
         /\ outcome' = "ValueError"
         /\ scene' = NoFigure("ValueError")
    ELSE IF ev.widget # "generate_csv"
    THEN /\ outcome' = "none"
         /\ scene' = NoFigure("none")
    ELSE \E df \in {CsvFrame(csv_[1])} :
         \E order \in SortOrders(df) :
         \E fig \in {create_plasmid_map(df, CsvPlasmidLength(df), label_font,
                                        show_positions, text_orientation_,
                                        <<>>, order)} :
            /\ outcome' = fig.result
            /\ scene' = fig

Tab1State == <<gb_data, plasmid_length, color_prefs, position_prefs,
               enabled_elements, edited_labels, checkbox_refresh,
               df_display, run_status>>

UploadCsv(table) ==
    /\ csv_upload = <<>>
    /\ csv_upload' = <<table>>
    /\ UNCHANGED <<uploaded, region, Sidebar, Tab1State>>
    /\ CsvRun(<<table>>, text_orientation, NoEvent)

GenerateCsv ==
    /\ csv_upload # <<>>
    /\ csv_upload[1] # <<>>
    /\ UNCHANGED <<uploaded, csv_upload, region, Sidebar, Tab1State>>
    /\ CsvRun(csv_upload, text_orientation, Event("generate_csv", <<>>, "none"))

SetOrientationCsv(o) ==
    /\ o # text_orientation
    /\ text_orientation' = o
    /\ UNCHANGED <<uploaded, csv_upload, region, show_positions, label_font, Tab1State>>
    /\ CsvRun(csv_upload, o, NoEvent)

\* the GenBank tab's session: upload, overrides, buttons, render
Next ==
    \/ \E file \in Files : Upload(file)
    \/ \E k \in Keys(gb_data), label \in LabelInputs : EditLabel(k, label)
    \/ \E k \in Keys(gb_data), color \in ColorInputs : SetColor(k, color)
    \/ \E k \in Keys(gb_data), position \in {"Up", "Down"} : SetPosition(k, position)
    \/ \E k \in Keys(gb_data) : ToggleShow(k)
    \/ SelectAll
    \/ DeselectAll
    \/ \E o \in Orientations : SetOrientation(o)
    \/ Generate

Spec == Init /\ [][Next]_vars

\* the region controls, with the Show checkboxes, and the render
NextRegion ==
    \/ \E file \in RegionFiles : Upload(file)
    \/ \E k \in Keys(gb_data) : ToggleShow(k)
    \/ ToggleRegion
    \/ \E v \in 1..plasmid_length : SetRegionStart(v)
    \/ \E v \in 1..plasmid_length : SetRegionEnd(v)
    \/ \E o \in Orientations : SetOrientation(o)
    \/ Generate

SpecRegion == Init /\ [][NextRegion]_vars

\* the GenBank tab's session over the parser's records, with the sidebar
NextParse ==
    \/ \E file \in ParseFiles : Upload(file)
    \/ \E o \in Orientations : SetOrientation(o)
    \/ ToggleSizes
    \/ Generate

SpecParse == Init /\ [][NextParse]_vars

\* the CSV tab's session
NextCsv ==
    \/ \E table \in CsvTables : UploadCsv(table)
    \/ \E o \in Orientations : SetOrientationCsv(o)
    \/ GenerateCsv

SpecCsv == Init /\ [][NextCsv]_vars

-----------------------------------------------------------------------------
(* Reading a scene back *)

\* the rows the last GenBank render was given, after the region filter
RenderedRows == RegionFilter(df_display, region)

Rendered == outcome = "fig"

Shapes(sc) == SelectSeq(sc.primitives, LAMBDA p : p.kind \in {"rect", "polygon"})

\* the element connectors: every line but the baseline
Connectors(sc) == SelectSeq(Tail(sc.primitives), LAMBDA p : p.kind = "line")

XsOf(shape) ==
    IF shape.kind = "rect" THEN {shape.x, shape.x + shape.width}
    ELSE {shape.points[i][1] : i \in 1..Len(shape.points)}

MinOf(S) == CHOOSE x \in S : \A y \in S : x <= y
MaxOf(S) == CHOOSE x \in S : \A y \in S : x >= y

Extent(shape) == MaxOf(XsOf(shape)) - MinOf(XsOf(shape))

\* the tip of an arrow, and the x where its head begins
TipX(shape) == shape.points[4][1]
ShoulderX(shape) == shape.points[2][1]

\* the stagger level a horizontal connector's far end stands for
LevelOf(connector) ==
    CHOOSE level \in 0..(num_levels - 1) :
        Abs(connector.ys[2]) = Heights("Up", "horizontal", level).line_end_y

-----------------------------------------------------------------------------
(* C1: an element whose visibility flag, under the key (original index,    *)
(* original name), is false is not in the rendered set, whatever label,    *)
(* colour and side overrides it carries.                                   *)
C1_DisabledExcluded ==
    Rendered =>
        \A k \in Keys(gb_data) :
            ~enabled_elements[k] =>
                \A i \in 1..Len(df_display) : df_display[i].idx # k[1]

(* C2: with a region [R0,R1] the render keeps exactly the rows whose start *)
(* is in the region, or whose end is, or which span it; when none          *)
(* qualifies the render reports the empty region.                          *)
C2_Keeps(s, e, R0, R1) ==
    \/ (R0 <= s /\ s <= R1)
    \/ (R0 <= e /\ e <= R1)
    \/ (s <= R0 /\ e >= R1)

C2_Expected ==
    SelectSeq(df_display,
              LAMBDA row : C2_Keeps(row.Start, row.End, region[1], region[2]))

C2_Drawn ==
    [j \in 1..Len(Shapes(scene)) |->
        <<MinOf(XsOf(Shapes(scene)[j])), MaxOf(XsOf(Shapes(scene)[j]))>>]

C2_RegionOverlapFilter ==
    (outcome \in {"fig", "region_empty"} /\ region # <<>>) =>
        IF C2_Expected = <<>> THEN outcome = "region_empty"
        ELSE /\ outcome = "fig"
             /\ C2_Drawn = [j \in 1..Len(C2_Expected) |->
                              <<C2_Expected[j].Start * Scale,
                                C2_Expected[j].End * Scale>>]

\* a render that kept a row only because it spans the region, and dropped one
C2_Witness ==
    /\ Rendered
    /\ region # <<>>
    /\ Len(Shapes(scene)) < Len(df_display)
    /\ \E i \in 1..Len(df_display) :
          /\ df_display[i].Start < region[1]
          /\ df_display[i].End > region[2]

(* C3: when no element is left after the visibility and region filters,    *)
(* with or without a region, no scene is produced: no baseline extent, no  *)
(* primitive, only the "nothing to render" signal.                         *)
C3_EmptyGivesNoScene ==
    (run_status = "ok" /\ RenderedRows = <<>>) =>
        /\ scene.primitives = <<>>
        /\ scene.xlim = <<>>
        /\ scene.ylim = <<>>
        /\ outcome \in {"none", "no_elements_selected", "region_empty"}

\* Generate pressed with visible elements, none of them in the region
C3_Witness ==
    /\ outcome = "region_empty"
    /\ df_display # <<>>
    /\ scene.primitives = <<>>

(* C4 as amended: without a region the baseline spans exactly              *)
(* [0, plasmid_length], whatever the elements' coordinates.                *)
C4_Baseline == scene.primitives[1]

C4_BaselineIsPlasmidLength ==
    (Rendered /\ region = <<>>) =>
        C4_Baseline = Line(0, plasmid_length * Scale, 0, 0)

\* a render without region whose elements start after 0 and end before the
\* plasmid does
C4_Witness ==
    /\ Rendered
    /\ region = <<>>
    /\ \A i \in 1..Len(df_display) :
          df_display[i].Start > 0 /\ df_display[i].End < plasmid_length

C4_Coordinates ==
    {df_display[i].Start : i \in 1..Len(df_display)}
    \cup {df_display[i].End : i \in 1..Len(df_display)}

(* C4 as stated: without a region the baseline spans [min - margin,        *)
(* max + margin] over the rendered starts and ends, the margin being 50.   *)
C4_Original ==
    (Rendered /\ region = <<>>) =>
        C4_Baseline.xs = <<(MinOf(C4_Coordinates) - 50) * Scale,
                           (MaxOf(C4_Coordinates) + 50) * Scale>>

(* C5: a rendered element with start = end is drawn with a positive fixed  *)
(* width centred on the point; no shape has zero width.                    *)
C5_Original ==
    Rendered =>
        \A j \in 1..Len(RenderedRows) :
            LET shape == Shapes(scene)[j]
                row == RenderedRows[j]
            IN /\ Extent(shape) > 0
               /\ row.Start = row.End =>
                     MinOf(XsOf(shape)) + MaxOf(XsOf(shape)) = 2 * row.Start * Scale

(* C6: in horizontal orientation every rendered element's stagger level is *)
(* its index in start-sorted order modulo 3, also when display names       *)
(* repeat.                                                                 *)
C6_Original ==
    (Rendered /\ text_orientation = "horizontal") =>
        \E order \in SortOrders(RenderedRows) :
            \A i \in 1..Len(RenderedRows) :
                LevelOf(Connectors(scene)[order[i]]) = (i - 1) % num_levels

(* C7 as amended: the arrowhead of an arrow of width w runs from           *)
(* center +- w/3 to the tip at center +- w/2, so it is w/6 wide.           *)
C7_Arrows == SelectSeq(Shapes(scene), LAMBDA p : p.kind = "polygon")

C7_HeadOf(arrow) == Abs(TipX(arrow) - ShoulderX(arrow))

C7_HeadIsSixthOfWidth ==
    Rendered =>
        \A j \in 1..Len(C7_Arrows) :
            6 * C7_HeadOf(C7_Arrows[j]) = Extent(C7_Arrows[j])

\* an arrow of positive width was drawn
C7_Witness ==
    /\ Rendered
    /\ \E j \in 1..Len(C7_Arrows) : Extent(C7_Arrows[j]) > 0

(* C7 as stated: the arrowhead is min(40, 0.3 * w) wide.                   *)
C7_Original ==
    Rendered =>
        \A j \in 1..Len(C7_Arrows) :
            10 * C7_HeadOf(C7_Arrows[j])
                = Min(10 * 40 * Scale, 3 * Extent(C7_Arrows[j]))

(* C8: an arrow's tip is its rightmost vertex for strand +1 and its        *)
(* leftmost for strand -1, and an element without a known strand is never  *)
(* drawn pointing in the reverse direction.                                *)
C8_PointsLeft(shape) ==
    TipX(shape) = MinOf(XsOf(shape)) /\ TipX(shape) < MaxOf(XsOf(shape))

C8_Original ==
    Rendered =>
        \A j \in 1..Len(RenderedRows) :
            LET shape == Shapes(scene)[j]
                row == RenderedRows[j]
            IN row.IsPromoter =>
                 /\ row.Strand = Fwd => TipX(shape) = MaxOf(XsOf(shape))
                 /\ row.Strand = Rev => TipX(shape) = MinOf(XsOf(shape))
                 /\ row.Strand \notin {Fwd, Rev} => ~C8_PointsLeft(shape)

(* C9: at render time every colour token resolves, by alias table, then    *)
(* as it is, then with trailing digits stripped, then to the default ink,  *)
(* to a colour the renderer knows: darkorchid3 to darkorchid, gold4 to     *)
(* goldenrod, xyz123 to the default ink.                                   *)
C9_Alias == color_map @@ ("gold4" :> "goldenrod")

C9_StripDigits(token) ==
    Get(("darkorchid3" :> "darkorchid") @@ ("gold4" :> "gold") @@
        ("xyz123" :> "xyz") @@ ("lightblue2" :> "lightblue"), token, token)

C9_ThreeTier(token) ==
    IF token \in DOMAIN C9_Alias THEN C9_Alias[token]
    ELSE IF token \in MatplotlibColors THEN token
    ELSE IF C9_StripDigits(token) \in MatplotlibColors THEN C9_StripDigits(token)
    ELSE "black"

C9_Original ==
    (csv_upload # <<>> /\ csv_upload[1] # <<>> /\ outcome # "none") =>
        /\ outcome = "fig"
        /\ \A j \in 1..Len(csv_upload[1]) :
              /\ Shapes(scene)[j].facecolor = C9_ThreeTier(csv_upload[1][j].Color)
              /\ Shapes(scene)[j].facecolor \in MatplotlibColors

-----------------------------------------------------------------------------
(* Reading a parse back *)

\* the features of the uploaded record that are not the whole-sequence
\* annotation, in the record's order
SourceSpellings == {"source", "Source", "SOURCE"}

ParsedFeatures ==
    IF uploaded = <<>> \/ ~uploaded[1].ok THEN <<>>
    ELSE SelectSeq(uploaded[1].features, LAMBDA f : f.type \notin SourceSpellings)

\* the script got a result from parse_genbank_file and stored it
ParseStored == run_status \in {"ok", "TypeError", "KeyError"}

(* C11: parse_genbank_file gives the complete element list or no result;   *)
(* an unreadable record, or one without a non-source feature, gives an     *)
(* error and no list, not even an empty one.                               *)
C11_Original ==
    uploaded # <<>> =>
        IF ~uploaded[1].ok \/ ParsedFeatures = <<>>
        THEN run_status = "parse_error"
        ELSE ParseStored /\ Len(gb_data) = Len(ParsedFeatures)

(* C12 as amended: a feature is a promoter exactly when its type is        *)
(* 'regulatory' in any case and 'promoter' occurs in its lower-cased note; *)
(* no other qualifier counts; promoters, and only they, are drawn as       *)
(* arrows.                                                                 *)
C12_Mentions(feature, keys) ==
    \E k \in keys \cap DOMAIN feature.qualifiers :
        \E i \in 1..Len(feature.qualifiers[k]) :
            HasPromoter(lower(feature.qualifiers[k][i]))

C12_IsRegulatory(feature) ==
    feature.type \in {"regulatory", "Regulatory", "REGULATORY"}

C12_ArrowsAre(classified) ==
    /\ ParseStored =>
          \A i \in 1..Len(gb_data) : gb_data[i].IsPromoter = classified[i]
    /\ Rendered =>
          \A j \in 1..Len(RenderedRows) :
              (Shapes(scene)[j].kind = "polygon") = classified[RenderedRows[j].idx + 1]

C12_PromoterFromNoteOnly ==
    C12_ArrowsAre([i \in 1..Len(ParsedFeatures) |->
                     /\ C12_IsRegulatory(ParsedFeatures[i])
                     /\ C12_Mentions(ParsedFeatures[i], {"note"})])

\* a regulatory feature that says promoter in regulatory_class only, drawn
\* as a rectangle
C12_Witness ==
    /\ Rendered
    /\ \E j \in 1..Len(RenderedRows) :
          LET f == ParsedFeatures[RenderedRows[j].idx + 1] IN
          /\ C12_IsRegulatory(f)
          /\ C12_Mentions(f, {"regulatory_class"})
          /\ ~C12_Mentions(f, {"note"})
          /\ Shapes(scene)[j].kind = "rect"

(* C12 as stated: promoter in any of note, standard_name, regulatory_class *)
(* or label makes a regulatory feature a promoter.                         *)
C12_Original ==
    C12_ArrowsAre([i \in 1..Len(ParsedFeatures) |->
                     /\ C12_IsRegulatory(ParsedFeatures[i])
                     /\ C12_Mentions(ParsedFeatures[i],
                                     {"note", "standard_name", "regulatory_class",
                                      "label"})])

(* C13: the default side is Up for strand +1 and Down for strand -1; only  *)
(* a feature without a known strand gets its side from its type,           *)
(* misc_feature in any case giving Down and every other type Up.           *)
C13_MiscSpellings == {"misc_feature", "Misc_Feature", "MISC_FEATURE"}

C14_SizeTexts ==
    SelectSeq(scene.primitives, LAMBDA p : p.kind = "text" /\ p.color = "grey")

C14_CoordinateConversion ==
    /\ ParseStored =>
          \A i \in 1..Len(gb_data) :
              LET f == ParsedFeatures[i]
                  row == gb_data[i]
              IN /\ row.Start = f.start + 1
                 /\ row.End = f.end
                 /\ <<row.Start - 1, row.End>> = <<f.start, f.end>>
                 /\ f.end - f.start = row.End - row.Start + 1
    /\ (Rendered /\ show_positions) =>
          \A j \in 1..Len(RenderedRows) :
              LET f == ParsedFeatures[RenderedRows[j].idx + 1] IN
              C14_SizeTexts[j].s = " (" \o ToString(f.end - f.start) \o " bp)"

\* a render with the sizes shown, of a feature that does not start at 0
C14_Witness ==
    /\ Rendered
    /\ show_positions
    /\ \E j \in 1..Len(RenderedRows) :
          /\ ParsedFeatures[RenderedRows[j].idx + 1].start > 0
          /\ C14_SizeTexts[j].s = " (2 bp)"

(* C15: an element is named by the first value of the first qualifier      *)
(* present among standard_name, label, gene, product, and else             *)
(* '{type}_{start}_{end}' with the 1-based coordinates.                    *)
C15_Priority == <<"standard_name", "label", "gene", "product">>

C15_Present(feature) ==
    SelectSeq(C15_Priority, LAMBDA k : k \in DOMAIN feature.qualifiers)

C15_Name(feature) ==
    IF C15_Present(feature) # <<>>
    THEN feature.qualifiers[C15_Present(feature)[1]][1]
    ELSE feature.type \o "_" \o ToString(feature.start + 1)
                      \o "_" \o ToString(feature.end)

C15_NameResolution ==
    ParseStored =>
        \A i \in 1..Len(gb_data) : gb_data[i].Element = C15_Name(ParsedFeatures[i])

\* a parse of a feature that carries both standard_name and label
C15_Witness ==
    /\ ParseStored
    /\ \E i \in 1..Len(gb_data) :
          /\ Len(C15_Present(ParsedFeatures[i])) >= 2
          /\ C15_Present(ParsedFeatures[i])[1] = "standard_name"
          /\ gb_data[i].Element = "A"

(* C16: a feature of type source, in any case, gives no element; every     *)
(* other feature gives exactly one, in the record's order.                 *)
C16_SourceSkipped ==
    ParseStored =>
        /\ Len(gb_data) = Len(ParsedFeatures)
        /\ \A i \in 1..Len(gb_data) :
              /\ gb_data[i].idx = i - 1
              /\ gb_data[i].Start = ParsedFeatures[i].start + 1
              /\ gb_data[i].End = ParsedFeatures[i].end
              /\ gb_data[i].Element = C15_Name(ParsedFeatures[i])

\* a parse of a record whose 'Source' feature stands between two others
C16_Witness ==
    /\ ParseStored
    /\ Len(uploaded[1].features) = 3
    /\ uploaded[1].features[2].type = "Source"
    /\ Len(gb_data) = 2

(* C17: a render is a function of the element list and the configuration   *)
(* alone: the scene is what create_plasmid_map gives for the frame and     *)
(* settings of that run, whatever happened before; a second render of the  *)
(* same frame with the same settings gives the same scene; and a render    *)
(* leaves the session's dictionaries and settings as they were.            *)
C17_Config == <<plasmid_length, label_font, show_positions, text_orientation, region>>

C17_Session ==
    <<color_prefs, position_prefs, enabled_elements, edited_labels,
      checkbox_refresh, uploaded>>

C18_RegionBaseline ==
    (Rendered /\ region # <<>>) =>
        /\ scene.primitives[1].kind = "line"
        /\ scene.primitives[1].xs = <<region[1] * Scale, region[2] * Scale>>
        /\ scene.primitives[1].ys = <<0, 0>>
        /\ \A j \in 1..Len(RenderedRows) :
              /\ MinOf(XsOf(Shapes(scene)[j])) = RenderedRows[j].Start * Scale
              /\ MaxOf(XsOf(Shapes(scene)[j])) = RenderedRows[j].End * Scale

\* a render of a region that is not the whole plasmid, with an element that
\* starts before the region
C18_Witness ==
    /\ Rendered
    /\ region # <<>>
    /\ region[1] > 1
    /\ \E j \in 1..Len(RenderedRows) :
          /\ RenderedRows[j].Start < region[1]
          /\ MinOf(XsOf(Shapes(scene)[j])) < region[1] * Scale

(* C19 as amended: the scene is emitted as the baseline, then for each     *)
(* element in input order its shape, its connector and its label text(s);  *)
(* stacking follows zorder first and emission order among equals, so an    *)
(* arrow (zorder 3) lies over every rectangle (zorder 1) it overlaps, also *)
(* over one drawn later, and two shapes of one kind stack in input order.  *)
C19_PerElement == IF show_positions THEN 4 ELSE 3

\* the position in scene.primitives of the k-th primitive of the j-th element
C19_At(j, k) == 1 + (j - 1) * C19_PerElement + k

\* matplotlib paints the artists in ascending zorder, equal ones in the
\* order they were added: the primitive at a is painted over the one at b
C19_Above(a, b) ==
    \/ scene.primitives[a].zorder > scene.primitives[b].zorder
    \/ (scene.primitives[a].zorder = scene.primitives[b].zorder /\ a > b)

C19_YsOf(shape) ==
    IF shape.kind = "rect" THEN {shape.y, shape.y + shape.height}
    ELSE {shape.points[i][2] : i \in 1..Len(shape.points)}

C19_Overlap(p, q) ==
    /\ MinOf(XsOf(p)) < MaxOf(XsOf(q)) /\ MinOf(XsOf(q)) < MaxOf(XsOf(p))
    /\ MinOf(C19_YsOf(p)) < MaxOf(C19_YsOf(q))
    /\ MinOf(C19_YsOf(q)) < MaxOf(C19_YsOf(p))

C19_EmittedInInputOrder ==
    /\ Len(scene.primitives) = 1 + Len(RenderedRows) * C19_PerElement
    /\ scene.primitives[1].kind = "line"
    /\ scene.primitives[1].ys = <<0, 0>>
    /\ \A j \in 1..Len(RenderedRows) :
          LET row == RenderedRows[j]
              shape == scene.primitives[C19_At(j, 1)]
              connector == scene.primitives[C19_At(j, 2)]
              label == scene.primitives[C19_At(j, 3)]
          IN /\ shape.kind \in {"rect", "polygon"}
             /\ MinOf(XsOf(shape)) = row.Start * Scale
             /\ MaxOf(XsOf(shape)) = row.End * Scale
             /\ connector.kind = "line"
             /\ 2 * connector.xs[1] = (row.Start + row.End) * Scale
             /\ label.kind = "text"
             /\ label.s = row.Element
             /\ show_positions =>
                   /\ scene.primitives[C19_At(j, 4)].kind = "text"
                   /\ scene.primitives[C19_At(j, 4)].color = "grey"

C19_OrderAndStacking ==
    Rendered =>
        /\ C19_EmittedInInputOrder
        /\ \A i, j \in 1..Len(RenderedRows) :
              LET a == C19_At(i, 1)
                  b == C19_At(j, 1)
              IN (i < j /\ C19_Overlap(scene.primitives[a], scene.primitives[b])) =>
                   IF /\ scene.primitives[a].kind = "polygon"
                      /\ scene.primitives[b].kind = "rect"
                   THEN C19_Above(a, b)
                   ELSE C19_Above(b, a)

\* an arrow drawn before a rectangle that overlaps it
C19_Witness ==
    /\ Rendered
    /\ \E i, j \in 1..Len(RenderedRows) :
          /\ i < j
          /\ scene.primitives[C19_At(i, 1)].kind = "polygon"
          /\ scene.primitives[C19_At(j, 1)].kind = "rect"
          /\ C19_Overlap(scene.primitives[C19_At(i, 1)], scene.primitives[C19_At(j, 1)])

(* C19 as stated: the same emission order, and of two overlapping elements *)
(* the later in input order is on top whatever their shapes.               *)
C19_Original ==
    Rendered =>
        /\ C19_EmittedInInputOrder
        /\ \A i, j \in 1..Len(RenderedRows) :
              (i < j /\ C19_Overlap(scene.primitives[C19_At(i, 1)],
                                    scene.primitives[C19_At(j, 1)])) =>
                  C19_Above(C19_At(j, 1), C19_At(i, 1))

(* C20: in every render, in both orientations, with the sizes shown or     *)
(* not, the y of every text anchor (label and size text) lies within the   *)
(* vertical viewport [-y_max, y_max] of that render.                       *)
C20_Texts == SelectSeq(scene.primitives, LAMBDA p : p.kind = "text")

C20_Original ==
    Rendered =>
        \A t \in 1..Len(C20_Texts) :
            /\ scene.ylim[1] <= C20_Texts[t].y
            /\ C20_Texts[t].y <= scene.ylim[2]

(* C21: after Deselect All, whatever labels were edited, colours and sides *)
(* overridden and boxes toggled before, every element of the file is       *)
(* disabled and a following Generate renders nothing and reports that no   *)
(* element is selected; after Select All every element is enabled and      *)
(* rendered, subject to the region filter.                                 *)
C21_AllFlags(value) == \A k \in Keys(gb_data) : enabled_elements[k] = value

C21_Original ==
    /\ [][(DeselectAll /\ run_status' = "ok") =>
             (C21_AllFlags(FALSE)' /\ df_display' = <<>>)]_vars
    /\ [][(Generate /\ C21_AllFlags(FALSE)) =>
             (outcome' = "no_elements_selected" /\ scene'.primitives = <<>>)]_vars
    /\ [][(SelectAll /\ run_status' = "ok") =>
             (C21_AllFlags(TRUE)' /\ Len(df_display') = Len(gb_data'))]_vars
    /\ [][(Generate /\ C21_AllFlags(TRUE)) =>
             (Len(df_display') = Len(gb_data')
              /\ (outcome' = "fig" =>
                    Len(Shapes(scene')) = Len(RegionFilter(df_display', region'))))]_vars

(* C22: when the user never touches an element's colour selector, the      *)
(* element is rendered in the colour the parse gave it: the selector,      *)
(* initialised from the parsed colour, holds that colour, keeps it, and    *)
(* the render uses it.                                                     *)
C22_SelectorsHoldParsedColors ==
    \A i \in 1..Len(gb_data) :
        /\ color_prefs[unique_key(gb_data[i].idx, gb_data[i].Element)] = gb_data[i].Color
        /\ \A j \in 1..Len(df_display) :
              df_display[j].idx = gb_data[i].idx => df_display[j].Color = gb_data[i].Color

C22_Original ==
    /\ [][(uploaded = <<>> /\ run_status' = "ok") => C22_SelectorsHoldParsedColors']_vars
    /\ [][run_status = "ok" => color_prefs' = color_prefs]_vars
    /\ [](Rendered =>
            \A j \in 1..Len(RenderedRows) :
                Shapes(scene)[j].facecolor =
                    color_prefs[unique_key(RenderedRows[j].idx,
                                           gb_data[RenderedRows[j].idx + 1].Element)])

====
